---- MODULE Spec2Model ----
(***************************************************************************)
(* Shift-reduce RST discourse parser (discourseparsing/discourse_parsing): *)
(* the action validity filter, the tree builder and the best-first search  *)
(* of Parser.parse, as a state machine with one step per search round.     *)
(*                                                                         *)
(* Python values.  A str is the sequence of its symbols, where a run of    *)
(* characters no operation ever splits ("nucleus", "span", ":::") is one   *)
(* symbol: "nucleus:span*" is <<"nucleus", ":", "span", "*">>.  Where the  *)
(* code mixes str and list values in one place the value carries its       *)
(* Python type (PyStr, PyList, PyInt).                                     *)
(***************************************************************************)
EXTENDS Integers, Sequences, FiniteSets, TLC

\* ------------------------------------------------------------------ bounds
\* Largest number of EDUs of a document.
MaxEdus == 2
\* Largest max_acts, max_states and n_best of a Parser.
MaxActs == 2
MaxStates == 3
MaxNBest == 2
\* Longest gold action sequence enumerated, and the largest document, of
\* the training runs.
MaxGold == 3
MaxGoldEdus == 4
\* The log-probabilities the classifier gives an action (np.log of a
\* probability is never positive).
LogProbs == {0 - 1, 0}

\* ----------------------------------------------------------- python values
PyStr(s) == [type |-> "str", v |-> s]
PyList(l) == [type |-> "list", v |-> l]
PyInt(i) == [type |-> "int", v |-> i]
\* Python's ==: values of different types are never equal.
PyEq(a, b) == a.type = b.type /\ a.v = b.v

startswith(s, prefix) ==
    Len(s) >= Len(prefix) /\ SubSeq(s, 1, Len(prefix)) = prefix
endswith(s, suffix) ==
    Len(s) >= Len(suffix) /\ SubSeq(s, Len(s) - Len(suffix) + 1, Len(s)) = suffix
\* s[:-1]
DropLast(s) == SubSeq(s, 1, Len(s) - 1)

Digits == <<"0", "1", "2", "3", "4", "5", "6", "7", "8", "9">>
\* '{}'.format(i) for 0 <= i <= 9
StrOfInt(i) == <<Digits[i + 1]>>
\* int(s) of such a string
IntOfStr(s) == CHOOSE i \in 0..9 : Digits[i + 1] = s[1]

Min(a, b) == IF a <= b THEN a ELSE b

\* ------------------------------------------------------------------- trees
\* nltk ParentedTree: a label and the list of children; a child is a tree or
\* a leaf value.
Tree(label, children) == [label |-> label, children |-> children]
Leaf(val) == [leaf |-> val]
IsLeaf(t) == "leaf" \in DOMAIN t

RECURSIVE leaves(_)
\* Tree.leaves(): the leaf values, left to right.
leaves(t) ==
    IF IsLeaf(t)
    THEN <<t.leaf>>
    ELSE LET RECURSIVE cat(_)
             cat(i) == IF i > Len(t.children) THEN <<>>
                       ELSE leaves(t.children[i]) \o cat(i + 1)
         IN cat(1)

RECURSIVE collapse_binarized_nodes(_)
\* Children whose label ends with '*' are replaced by their own (collapsed)
\* children, at every level.
collapse_binarized_nodes(t) ==
    IF IsLeaf(t)
    THEN t
    ELSE LET RECURSIVE cat(_)
             cat(i) ==
                 IF i > Len(t.children) THEN <<>>
                 ELSE LET c == collapse_binarized_nodes(t.children[i])
                      IN (IF ~IsLeaf(c) /\ endswith(c.label, <<"*">>)
                          THEN c.children ELSE <<c>>) \o cat(i + 1)
         IN Tree(t.label, cat(1))

\* ----------------------------------------------------------------- actions
ShiftReduceAction(type, label) == [type |-> type, label |-> label]
ScoredAction(action, score) == [action |-> action, score |-> score]

\* Classifier label lists (model.label_list), strings "<type>:<label>".
LabelLists ==
    { \* relations with unary and binary reduces
      << <<"S", ":", "text">>,
         <<"U", ":", "nucleus", ":", "span">>,
         <<"U", ":", "satellite", ":", "elaboration">>,
         <<"B", ":", "nucleus", ":", "span">>,
         <<"B", ":", "ROOT">> >>,
      \* a binarized (partial, '*') relation
      << <<"B", ":", "ROOT">>,
         <<"B", ":", "nucleus", ":", "span", "*">>,
         <<"B", ":", "nucleus", ":", "span">>,
         <<"U", ":", "nucleus", ":", "span">>,
         <<"S", ":", "text">> >>,
      \* a nuclearity label written without the colon
      << <<"S", ":", "text">>,
         <<"U", ":", "nucleus">>,
         <<"B", ":", "satellite", ":", "elaboration">>,
         <<"B", ":", "ROOT">> >>,
      \* no unary reduce
      << <<"S", ":", "text">>,
         <<"B", ":", "nucleus", ":", "span">>,
         <<"B", ":", "ROOT">> >> }

\* Parser._get_model_actions: type = x[0], label = x[2:]
_get_model_actions(label_list) ==
    [i \in 1..Len(label_list) |->
        ShiftReduceAction(label_list[i][1],
                          SubSeq(label_list[i], 3, Len(label_list[i])))]

\* ------------------------------------------------------------------- input
\* extract_tagged_doc_edus(doc_dict): EDU i (from 0) is a list of
\* (word, POS) pairs; here EDU i has (i mod 3) + 1 tokens.
EduToken(i, k) == <<<<"w", Digits[i + 1], Digits[k + 1]>>, <<"p", Digits[k + 1]>>>>
extract_tagged_doc_edus(n) ==
    [i \in 1..n |-> [k \in 1..(((i - 1) % 3) + 1) |-> EduToken(i - 1, k - 1)]]

\* The markers "0" and "1" both built from the second token.
EduMarkersBothSecond(toks) ==
    LET second == IF Len(toks) > 1 THEN toks[2] ELSE <<>>
    IN <<toks[Len(toks)] \o <<":::", "-1">>,
         second \o <<":::", "0">>,
         second \o <<":::", "1">>>> \o toks

\* Parser.initialize_edu_data: one stack/queue item per EDU.
EduMarkers(toks) ==
    LET m1 == (IF Len(toks) > 1 THEN toks[2] ELSE <<>>) \o <<":::", "1">>
        l1 == <<m1>> \o toks
        m0 == l1[2] \o <<":::", "0">>
        l2 == <<m0>> \o l1
        ml == l2[Len(l2)] \o <<":::", "-1">>
    IN <<ml>> \o l2

initialize_edu_data(edus) ==
    [i \in 1..Len(edus) |->
        LET wnum == i - 1
            edu_words == [k \in 1..Len(edus[i]) |-> edus[i][k][1]]
            edu_pos_tags == [k \in 1..Len(edus[i]) |-> edus[i][k][2]]
        IN [head_idx |-> wnum,
            start_idx |-> wnum,
            end_idx |-> wnum,
            nt |-> <<"text">>,
            head |-> PyList(EduMarkers(edu_words)),
            hpos |-> PyList(EduMarkers(edu_pos_tags)),
            tree |-> Tree(<<"text">>, <<Leaf(PyStr(StrOfInt(i - 1)))>>),
            lchnt |-> <<"NONE">>,
            rchnt |-> <<"NONE">>,
            lchpos |-> <<"NONE">>,
            rchpos |-> <<"NONE">>,
            lchw |-> PyStr(<<"NONE">>),
            rchw |-> PyStr(<<"NONE">>),
            nch |-> 0,
            nlch |-> 0,
            nrch |-> 0]]

\* The sentinel Parser.parse puts at the bottom of the stack.
LeftWallItem ==
    [head_idx |-> 0 - 1,
     start_idx |-> 0 - 1,
     end_idx |-> 0 - 1,
     nt |-> <<"LEFTWALL">>,
     tree |-> Tree(<<"LEFTWALL">>, <<>>),
     head |-> PyList(<< <<"LEFTWALL">> >>),
     hpos |-> PyList(<< <<"LW">> >>),
     lchnt |-> <<"NONE">>,
     rchnt |-> <<"NONE">>,
     lchpos |-> <<"NONE">>,
     rchpos |-> <<"NONE">>,
     lchw |-> PyStr(<<"NONE">>),
     rchw |-> PyStr(<<"NONE">>),
     nch |-> 0,
     nlch |-> 0,
     nrch |-> 0]

\* ---------------------------------------------------------- validity filter
\* The unary limit one higher.
TooManyUnaryOffByOne(ucnt) == ucnt > 3

\* "Do not allow too many consecutive unary reduce actions."
TooManyUnary(ucnt) == ucnt > 2

\* "Do not allow a reduce action if the stack is empty (i.e., contains only
\* the leftwall)": the head of the top item compared with the str "LEFTWALL".
StackIsEmpty(stack) ==
    PyEq(stack[Len(stack)].head, PyStr(<<"LEFTWALL">>))

\* "Make sure there is a head."
HasHead(lc_label, rc_label) ==
    \/ startswith(lc_label, <<"nucleus">>)
    \/ startswith(rc_label, <<"nucleus">>)
    \/ endswith(lc_label, <<"*">>)
    \/ endswith(rc_label, <<"*">>)

\* The partial labels never compared with the action.
PartialMatchesSkipped(c_label, label) == TRUE

\* "Check that partial node labels (ending with * ) match the action."
PartialMatches(c_label, label) ==
    ~(endswith(c_label, <<"*">>) /\ label # c_label /\ label # DropLast(c_label))

\* B:ROOT allowed while EDUs are still in the queue.
RootAllowedIgnoringQueue(sent, stack) == Len(stack) = 2

\* "Do not allow B:ROOT unless we will have a complete parse."
RootAllowed(sent, stack) == ~(Len(stack) # 2 \/ sent # <<>>)

\* A shift allowed whatever is left in the queue.
NothingToShiftIgnored(sent) == FALSE

\* "Do not allow shift if there is nothing left to shift": "not sent".
NothingToShift(sent) == sent = <<>>

\* Parser.is_valid_action(act, ucnt, sent, stack)
is_valid_action(act, ucnt, sent, stack) ==
    IF act.type = "U" /\ TooManyUnary(ucnt) THEN FALSE
    ELSE IF act.type = "U" /\ StackIsEmpty(stack) THEN FALSE
    ELSE IF act.type = "U" /\ endswith(stack[Len(stack)].nt, <<"*">>) THEN FALSE
    ELSE IF act.type = "S" /\ NothingToShift(sent) THEN FALSE
    ELSE IF act.type = "B" /\ act.label # <<"ROOT">> /\ Len(stack) < 3 THEN FALSE
    ELSE IF act.type = "B" /\ act.label # <<"ROOT">>
            /\ ~HasHead(stack[Len(stack) - 1].nt, stack[Len(stack)].nt) THEN FALSE
    ELSE IF act.type = "B" /\ act.label # <<"ROOT">>
            /\ ~PartialMatches(stack[Len(stack) - 1].nt, act.label) THEN FALSE
    ELSE IF act.type = "B" /\ act.label # <<"ROOT">>
            /\ ~PartialMatches(stack[Len(stack)].nt, act.label) THEN FALSE
    ELSE IF act.type = "B" /\ act.label = <<"ROOT">>
            /\ ~RootAllowed(sent, stack) THEN FALSE
    ELSE TRUE

\* -------------------------------------------------------------- tree builder
\* The left child taken as the head whatever the labels.
HeadSideAlwaysLeft(lc_nt, rc_nt, act) == "left"

\* Which child of a binary reduce gives the head: "left", "right", or "none"
\* (the branch that raises ValueError).
HeadSide(lc_nt, rc_nt, act) ==
    IF \/ startswith(lc_nt, <<"nucleus", ":">>)
       \/ endswith(lc_nt, <<"*">>)
       \/ (act.type = "B" /\ act.label = <<"ROOT">>)
    THEN "left"
    ELSE IF \/ startswith(rc_nt, <<"nucleus", ":">>)
            \/ endswith(rc_nt, <<"*">>)
    THEN "right"
    ELSE "none"

\* The children of a binary reduce in the wrong order.
BinaryTreeSwapped(label, tmp_lc, tmp_rc) == Tree(label, <<tmp_rc.tree, tmp_lc.tree>>)

\* new_tree of a binary reduce: the left child's tree, then the right's.
BinaryTree(label, tmp_lc, tmp_rc) == Tree(label, <<tmp_lc.tree, tmp_rc.tree>>)

\* The span taken from the wrong ends of the children.
ReducedSpanSwapped(tmp_lc, tmp_rc) ==
    [start_idx |-> tmp_rc.start_idx, end_idx |-> tmp_lc.end_idx]

\* The span of a binary reduce: from the start of the left child to the end
\* of the right child.
ReducedSpan(tmp_lc, tmp_rc) ==
    [start_idx |-> tmp_lc.start_idx, end_idx |-> tmp_rc.end_idx]

\* tmp_item of a binary reduce whose head is the left child.
ReduceRightItem(act, tmp_lc, tmp_rc) ==
    [head_idx |-> tmp_lc.head_idx,
     start_idx |-> ReducedSpan(tmp_lc, tmp_rc).start_idx,
     end_idx |-> ReducedSpan(tmp_lc, tmp_rc).end_idx,
     nt |-> act.label,
     tree |-> BinaryTree(act.label, tmp_lc, tmp_rc),
     head |-> tmp_lc.head,
     hpos |-> tmp_lc.hpos,
     lchnt |-> tmp_lc.lchnt,
     rchnt |-> tmp_rc.nt,
     lchpos |-> tmp_lc.lchpos,
     rchpos |-> <<>>,
     lchw |-> tmp_lc.lchw,
     rchw |-> tmp_rc.head,
     nch |-> tmp_lc.nch + 1,
     nlch |-> tmp_lc.nlch + 1,
     nrch |-> tmp_lc.nrch]

\* tmp_item of a binary reduce whose head is the right child.
ReduceLeftItem(act, tmp_lc, tmp_rc) ==
    [head_idx |-> tmp_rc.head_idx,
     start_idx |-> ReducedSpan(tmp_lc, tmp_rc).start_idx,
     end_idx |-> ReducedSpan(tmp_lc, tmp_rc).end_idx,
     nt |-> act.label,
     tree |-> BinaryTree(act.label, tmp_lc, tmp_rc),
     head |-> tmp_rc.head,
     hpos |-> tmp_rc.hpos,
     lchnt |-> tmp_lc.nt,
     rchnt |-> tmp_rc.rchnt,
     lchpos |-> <<>>,
     rchpos |-> tmp_rc.rchpos,
     lchw |-> tmp_lc.head,
     rchw |-> tmp_rc.rchw,
     nch |-> tmp_rc.nch + 1,
     nlch |-> tmp_rc.nlch,
     nrch |-> tmp_rc.nrch + 1]

\* A unary reduce that starts the child counts again.
UnaryItemFreshCounts(act, tmp_c) ==
    [tmp_c EXCEPT !.nt = act.label,
                  !.tree = Tree(act.label, <<tmp_c.tree>>),
                  !.nch = 1, !.nlch = 0, !.nrch = 0]

\* tmp_item of a unary reduce.
UnaryItem(act, tmp_c) ==
    [tmp_c EXCEPT !.nt = act.label,
                  !.tree = Tree(act.label, <<tmp_c.tree>>)]

\* sent.pop() instead of sent.pop(0): the last item of the queue.
PopBack(sent) == [item |-> sent[Len(sent)], rest |-> DropLast(sent)]

\* sent.pop(0): the front item of the queue and the queue without it.
PopFront(sent) == [item |-> Head(sent), rest |-> Tail(sent)]

\* The outcome of process_action: the queue and stack it leaves, and the
\* exception it raises ("none" when it returns).
Outcome(sent, stack, raised) == [sent |-> sent, stack |-> stack, raised |-> raised]

\* Parser.process_action(act, sent, stack)
process_action(act, sent, stack) ==
    IF act.type = "B"
    THEN IF Len(stack) < 2
         THEN Outcome(sent, <<>>, "IndexError")
         ELSE LET tmp_rc == stack[Len(stack)]
                  tmp_lc == stack[Len(stack) - 1]
                  below == SubSeq(stack, 1, Len(stack) - 2)
                  side == HeadSide(tmp_lc.nt, tmp_rc.nt, act)
              IN IF side = "left"
                 THEN Outcome(sent, Append(below, ReduceRightItem(act, tmp_lc, tmp_rc)), "none")
                 ELSE IF side = "right"
                 THEN Outcome(sent, Append(below, ReduceLeftItem(act, tmp_lc, tmp_rc)), "none")
                 ELSE Outcome(sent, below, "ValueError")
    ELSE IF act.type = "U"
    THEN IF stack = <<>>
         THEN Outcome(sent, stack, "IndexError")
         ELSE Outcome(sent, Append(DropLast(stack), UnaryItem(act, stack[Len(stack)])), "none")
    ELSE IF act.type = "S"
    THEN IF sent = <<>>
         THEN Outcome(sent, stack, "IndexError")
         ELSE Outcome(PopFront(sent).rest, Append(stack, PopFront(sent).item), "none")
    ELSE Outcome(sent, stack, "none")

\* Parser.deep_copy_stack_or_queue: a list of new items with equal contents.
deep_copy_stack_or_queue(data_list) == [i \in 1..Len(data_list) |-> data_list[i]]

\* ----------------------------------------------------------------- features
\* '{}'.format(i) for -9 <= i <= 9
FormatInt(i) == IF i < 0 THEN <<"-">> \o StrOfInt(0 - i) ELSE StrOfInt(i)

\* doc_dict['edu_start_indices']: (sentence #, token #, EDU #) per EDU; here
\* a sentence holds two EDUs.
edu_start_indices(num) ==
    [i \in 1..num |->
        <<(i - 1) \div 2,
          IF (i - 1) % 2 = 0 THEN 0 ELSE ((i - 2) % 3) + 1,
          i - 1>>]

\* The stand-in mkfeats uses for s1, s2, s3 when the stack is too short.
TopFiller ==
    [nt |-> <<"TOP">>,
     head |-> PyList(<< <<"LeftWall">> >>),
     hpos |-> PyList(<< <<"LW">> >>),
     tree |-> <<>>,
     start_idx |-> 0 - 1,
     end_idx |-> 0 - 1]

\* "name:{}".format(value)
Feat(name, value) == <<name, ":">> \o value

\* One feature per element of a list of words or tags.
ListFeats(name, l) == [i \in 1..Len(l.v) |-> Feat(name, l.v[i])]

\* item.get(key, ""), formatted: a label, or a count.
GetStr(item, key) == IF key \in DOMAIN item THEN item[key] ELSE <<>>
GetInt(item, key) == IF key \in DOMAIN item THEN FormatInt(item[key]) ELSE <<>>

\* The distance counted as 0 when either item has no head_idx.
HeadDistanceFillerZero(s0, s1) ==
    IF "head_idx" \in DOMAIN s0 /\ "head_idx" \in DOMAIN s1
    THEN s0.head_idx - s1.head_idx
    ELSE 0

\* s0.get("head_idx", 0) - s1.get("head_idx", 0)
HeadDistance(s0, s1) ==
    (IF "head_idx" \in DOMAIN s0 THEN s0.head_idx ELSE 0)
    - (IF "head_idx" \in DOMAIN s1 THEN s1.head_idx ELSE 0)

\* "whether the EDUS are in the same sentence"
SameSentence(s0, s1, start_indices) ==
    /\ s0.start_idx > 0 - 1
    /\ s1.end_idx > 0 - 1
    /\ start_indices[s0.start_idx + 1][1] = start_indices[s1.end_idx + 1][1]

\* "PREV:{}:{}".format(prevact.type, prevact.label)
PrevFeat(prevact) == <<"PREV", ":", prevact.type, ":">> \o prevact.label

\* The features mkfeats collects before the combinations.
BaseFeats(prevact, sent, stack, start_indices) ==
    LET stack_len == Len(stack)
        s0 == stack[stack_len]
        s1 == IF stack_len > 1 THEN stack[stack_len - 1] ELSE TopFiller
        s2 == IF stack_len > 2 THEN stack[stack_len - 2] ELSE TopFiller
        s3 == IF stack_len > 3 THEN stack[stack_len - 3] ELSE TopFiller
        nw1 == IF Len(sent) > 0 THEN sent[1].head ELSE PyList(<< <<"RightWall">> >>)
        np1 == IF Len(sent) > 0 THEN sent[1].hpos ELSE PyList(<< <<"RW">> >>)
        nw2 == IF Len(sent) > 1 THEN sent[2].head ELSE PyList(<< <<"RightWall">> >>)
        np2 == IF Len(sent) > 1 THEN sent[2].hpos ELSE PyList(<< <<"RW">> >>)
    IN <<PrevFeat(prevact)>>
       \o ListFeats("S0w", s0.head)
       \o ListFeats("S0p", s0.hpos)
       \o <<Feat("S0nt", s0.nt),
            Feat("S0lnt", s0.lchnt),
            Feat("S0rnt", s0.rchnt),
            Feat("S0nch", FormatInt(s0.nch)),
            Feat("S0nlch", FormatInt(s0.nlch)),
            Feat("S0nrch", FormatInt(s0.nrch))>>
       \o ListFeats("S1w", s1.head)
       \o ListFeats("S1p", s1.hpos)
       \o <<Feat("S1nt", s1.nt),
            Feat("S1lnt", GetStr(s1, "lchnt")),
            Feat("S1rnt", GetStr(s1, "rchnt")),
            Feat("S1nch", GetInt(s1, "nch")),
            Feat("S1nlch", GetInt(s1, "nlch")),
            Feat("S1nrch", GetInt(s1, "nrch"))>>
       \o ListFeats("S2w", s2.head)
       \o ListFeats("S2p", s2.hpos)
       \o <<Feat("S2nt", s2.nt)>>
       \o <<Feat("S3nt", s3.nt)>>
       \o ListFeats("nw1", nw1)
       \o ListFeats("np1", np1)
       \o ListFeats("nw2", nw2)
       \o ListFeats("np2", np2)
       \o <<Feat("dist", FormatInt(HeadDistance(s0, s1)))>>
       \o (IF SameSentence(s0, s1, start_indices)
           THEN << <<"s0s1_same_sentence">> >>
           ELSE <<>>)

\* Parser.mkfeats(prevact, sent, stack, doc_dict)
mkfeats(prevact, sent, stack, start_indices) ==
    LET feats == BaseFeats(prevact, sent, stack, start_indices)
    IN feats \o [i \in 1..Len(feats) |->
                    <<"combo", ":">> \o feats[i] \o <<"~">> \o PrevFeat(prevact)]

\* ------------------------------------------------------------------- search
VARIABLES
    n,              \* number of EDUs of the document (len(tagged_edus))
    max_acts,       \* Parser.max_acts
    max_states,     \* Parser.max_states
    n_best,         \* Parser.n_best
    label_list,     \* model.label_list
    scores,         \* the log-probability the classifier gives each label
    states,         \* the frontier
    cur_state,      \* <<the state popped in the last round>>, <<>> before it
    completetrees,  \* the completed trees collected so far
    pc,             \* "start", "blank", "loop", "break", "returned", "raised"
    error,          \* the exception parse raised, "none" if none
    results,        \* the (tree, score) results parse yielded
    gold,           \* the gold_actions argument: <<>> for None, else <<list>>
    make_features,  \* the make_features argument
    gold_actions,   \* the gold actions not yet popped
    pairs,          \* the (action label, features) pairs parse yielded
    logged,         \* the states logger.error was called with
    doc,            \* the keys doc_dict has when segment_and_parse is called
    calls,          \* the collaborators segment_and_parse has invoked
    ret             \* <<what segment_and_parse returned>>, <<>> before it

vars == <<n, max_acts, max_states, n_best, label_list, scores, states,
          cur_state, completetrees, pc, error, results,
          gold, make_features, gold_actions, pairs, logged, doc, calls, ret>>

config == <<n, max_acts, max_states, n_best, label_list, scores, gold, make_features>>

\* What only segment_and_parse changes.
pipeline == <<doc, calls, ret>>

\* What only training mode changes.
training == <<gold_actions, pairs, logged>>

\* sorted(..., key=score, reverse=True) and list.sort: stable, descending.
RECURSIVE InsertByScore(_, _)
InsertByScore(sorted, x) ==
    IF sorted = <<>> THEN <<x>>
    ELSE IF Head(sorted).score >= x.score
    THEN <<Head(sorted)>> \o InsertByScore(Tail(sorted), x)
    ELSE <<x>> \o sorted

RECURSIVE SortByScore(_)
SortByScore(seq) ==
    IF seq = <<>> THEN <<>>
    ELSE InsertByScore(SortByScore(DropLast(seq)), seq[Len(seq)])

\* The sort without reverse=True: stable, ascending.
SortStatesAscending(sts) ==
    LET neg == [i \in 1..Len(sts) |-> [sts[i] EXCEPT !.score = 0 - sts[i].score]]
        srt == SortByScore(neg)
    IN [i \in 1..Len(srt) |-> [srt[i] EXCEPT !.score = 0 - srt[i].score]]

\* A descending sort that puts the later of two equal scores first.
SortStatesTiesReversed(sts) ==
    LET asc == SortStatesAscending(sts)
    IN [i \in 1..Len(asc) |-> asc[Len(asc) + 1 - i]]

\* states.sort(key=itemgetter("score"), reverse=True)
SortStates(sts) == SortByScore(sts)

\* The frontier never cut.
TruncateStatesSkipped(sts, limit) == sts

\* states[:self.max_states]
TruncateStates(sts, limit) == SubSeq(sts, 1, Min(limit, Len(sts)))

\* The frontier after the sort and the truncation that open a round.
Beam == TruncateStates(SortStates(states), max_states)

\* "check if the current state corresponds to a complete tree"
IsComplete(st) == Len(st.sent) = 0 /\ Len(st.stack) = 1

\* The initial state of parse: the sentinel alone on the stack, every EDU in
\* the queue.  path is the history of the actions applied so far; lists is
\* the identity of the state's stack and queue list objects, the path of the
\* state they were created for.
InitialState(edus) ==
    [prevact |-> ShiftReduceAction("S", <<"text">>),
     ucnt |-> 0,
     score |-> 0,
     nsteps |-> 0,
     stack |-> <<LeftWallItem>>,
     sent |-> initialize_edu_data(edus),
     lists |-> <<>>,
     path |-> <<>>]

\* The classifier's actions with their scores, best first.
SortedActs(label_lst, scrs) ==
    SortByScore([i \in 1..Len(label_lst) |->
                    ScoredAction(_get_model_actions(label_lst)[i], scrs[i])])

\* "If parsing, verify the validity of the actions."
ValidActs(scored_acts, st) ==
    SelectSeq(scored_acts,
              LAMBDA x : is_valid_action(x.action, st.ucnt, st.sent, st.stack))

\* scored_acts[:self.max_acts]
TruncateActs(scored_acts, limit) == SubSeq(scored_acts, 1, Min(limit, Len(scored_acts)))

\* The scored actions cut to max_acts before the validity filter.
CandidatesCutFirst(st) ==
    ValidActs(TruncateActs(SortedActs(label_list, scores), max_acts), st)

\* The candidate actions of a state in decoding mode.
Candidates(st) ==
    TruncateActs(ValidActs(SortedActs(label_list, scores), st), max_acts)

\* "If the action is a unary reduce, increment the count. Otherwise, reset it."
NextUcnt(ucnt, action) == IF action.type = "U" THEN ucnt + 1 ELSE 0

\* The stack and queue the turn for a candidate works on, without a copy:
\* the parent's own lists.
SameLists(obj, fresh) == obj

\* "Make deep copies of the input queue and stack": new list objects.
CopyLists(obj, fresh) ==
    [id |-> fresh,
     sent |-> deep_copy_stack_or_queue(obj.sent),
     stack |-> deep_copy_stack_or_queue(obj.stack)]

\* "if self.max_acts > 1": copies; otherwise the lists of cur_state.
ListsForCandidate(obj, fresh) ==
    IF max_acts > 1 THEN CopyLists(obj, fresh) ELSE obj

\* The "while scored_acts" loop, turn by turn.  heap maps the identity of a
\* pair of list objects to their contents now; process_action changes the
\* lists it is given in place, so every state that holds the same objects
\* sees the change.
RECURSIVE PushSuccessors(_, _, _, _)
PushSuccessors(cur, scored_acts, heap, pushed) ==
    IF scored_acts = <<>>
    THEN [heap |-> heap, pushed |-> pushed, raised |-> "none"]
    ELSE LET sa == Head(scored_acts)
             obj == ListsForCandidate([id |-> cur.lists,
                                       sent |-> heap[cur.lists].sent,
                                       stack |-> heap[cur.lists].stack],
                                      Append(cur.path, sa.action))
             out == process_action(sa.action, obj.sent, obj.stack)
             heap2 == [x \in DOMAIN heap \cup {obj.id} |->
                          IF x = obj.id
                          THEN [sent |-> out.sent, stack |-> out.stack]
                          ELSE heap[x]]
             tmp_state == [prevact |-> sa.action,
                           ucnt |-> NextUcnt(cur.ucnt, sa.action),
                           score |-> cur.score + sa.score,
                           nsteps |-> cur.nsteps + 1,
                           stack |-> out.stack,
                           sent |-> out.sent,
                           lists |-> obj.id,
                           path |-> Append(cur.path, sa.action)]
         IN IF out.raised # "none"
            THEN [heap |-> heap2, pushed |-> pushed, raised |-> out.raised]
            ELSE PushSuccessors(cur, Tail(scored_acts), heap2, Append(pushed, tmp_state))

\* A state as it reads once the loop is over: the contents its list objects
\* have then.
View(st, heap) ==
    IF st.lists \in DOMAIN heap
    THEN [st EXCEPT !.sent = heap[st.lists].sent, !.stack = heap[st.lists].stack]
    ELSE st

\* The loop run for the state popped and its candidates.
RunCandidates(cur, scored_acts) ==
    PushSuccessors(cur, scored_acts,
                   [x \in {cur.lists} |-> [sent |-> cur.sent, stack |-> cur.stack]],
                   <<>>)

\* One turn of "while scored_acts" on lists no other state holds: the
\* successor state and what process_action raised.
Successor(st, sa) ==
    LET out == process_action(sa.action,
                              deep_copy_stack_or_queue(st.sent),
                              deep_copy_stack_or_queue(st.stack))
    IN [state |-> [prevact |-> sa.action,
                   ucnt |-> NextUcnt(st.ucnt, sa.action),
                   score |-> st.score + sa.score,
                   nsteps |-> st.nsteps + 1,
                   stack |-> out.stack,
                   sent |-> out.sent,
                   lists |-> IF max_acts > 1 THEN Append(st.path, sa.action) ELSE st.lists,
                   path |-> Append(st.path, sa.action)],
        raised |-> out.raised]

Successors(st) == [i \in 1..Len(Candidates(st)) |-> Successor(st, Candidates(st)[i])]

\* The exception of the first candidate whose process_action raises.
FirstRaised(succs) ==
    IF \A i \in 1..Len(succs) : succs[i].raised = "none"
    THEN "none"
    ELSE succs[CHOOSE i \in 1..Len(succs) :
                   /\ succs[i].raised # "none"
                   /\ \A j \in 1..(i - 1) : succs[j].raised = "none"].raised

\* What the completion branch does with the tree of a complete state:
\* "assert tree[0].label() == 'LEFTWALL'".
CompletionError(tree) ==
    IF tree.children = <<>> THEN "IndexError"
    ELSE IF IsLeaf(tree.children[1]) THEN "AttributeError"
    ELSE IF tree.children[1].label # <<"LEFTWALL">> THEN "AssertionError"
    ELSE "none"

\* "del tree[0]", then collapse_binarized_nodes(tree).
FinishedTree(tree) ==
    collapse_binarized_nodes(Tree(tree.label, Tail(tree.children)))

\* "stop if we have found enough trees"
EnoughTrees(trees, limit) == Len(trees) >= limit

\* The flat tree added whatever was completed.
NeedFallbackAlways(trees) == TRUE

\* "if not completetrees"
NeedFallback(trees) == trees = <<>>

\* "Default to a flat tree if there is no complete parse."
FlatTree(num) ==
    Tree(<<"ROOT">>, [i \in 1..num |-> Tree(<<"text">>, <<Leaf(PyInt(i - 1))>>)])

\* A document dictionary: raw_text is <<>> when the key is absent, else
\* <<the text>>; the flags say which keys are there.
DocDict(raw_text, syntax_trees, edu_start) ==
    [raw_text |-> raw_text, syntax_trees |-> syntax_trees, edu_start_indices |-> edu_start]

\* A document that comes parsed and segmented, as Parser.parse needs it.
ParsedDoc == DocDict(<<>>, TRUE, TRUE)

\* "if gold_actions is not None"
Training == gold # <<>>

\* "assert act.type != 'S' or act.label == 'text'"
GoldShiftIsText(act) == act.type # "S" \/ act.label = <<"text">>

\* A pair for every gold action.
EmitsPairAlways(act, prevact) == TRUE

\* "if not (act == cur_state['prevact'] and act.type == 'U')"
EmitsPair(act, prevact) == ~(act = prevact /\ act.type = "U")

\* "yield ('{}:{}'.format(act.type, act.label), feats)"
TrainingPair(act, feats) ==
    [label |-> <<act.type, ":">> \o act.label, feats |-> feats]

\* The candidates of a training round: the gold action with score 0.0, cut
\* to max_acts like any list of scored actions.
GoldCandidates(act) == TruncateActs(<<ScoredAction(act, 0)>>, max_acts)

\* "if gold_actions is None or not make_features": the trees are yielded.
YieldsTrees == ~Training \/ ~make_features

Init ==
    /\ n \in 0..MaxEdus
    /\ max_acts \in 1..MaxActs
    /\ max_states \in 1..MaxStates
    /\ n_best \in 1..MaxNBest
    /\ label_list \in LabelLists
    /\ scores \in [1..Len(label_list) -> LogProbs]
    /\ states = <<InitialState(extract_tagged_doc_edus(n))>>
    /\ cur_state = <<>>
    /\ completetrees = <<>>
    /\ pc = "loop"
    /\ error = "none"
    /\ results = <<>>
    /\ gold = <<>>
    /\ make_features = TRUE
    /\ gold_actions = <<>>
    /\ pairs = <<>>
    /\ logged = <<>>
    /\ doc = ParsedDoc
    /\ calls = <<>>
    /\ ret = <<>>

\* A round whose best state is complete: its tree is collected.
CollectTree ==
    /\ pc = "loop" /\ states # <<>>
    /\ LET cur == Head(Beam)
           tree == cur.stack[1].tree
           trees == Append(completetrees,
                           [tree |-> FinishedTree(tree), score |-> cur.score])
       IN /\ IsComplete(cur)
          /\ CompletionError(tree) = "none"
          /\ cur_state' = <<cur>>
          /\ states' = Tail(Beam)
          /\ completetrees' = trees
          /\ pc' = IF Training \/ EnoughTrees(trees, n_best) THEN "break" ELSE "loop"
    /\ UNCHANGED <<config, pipeline, training, error, results>>

\* A round whose best state is complete, but whose tree does not start with
\* the sentinel: parse raises.
CollectRaises ==
    /\ pc = "loop" /\ states # <<>>
    /\ LET cur == Head(Beam)
       IN /\ IsComplete(cur)
          /\ CompletionError(cur.stack[1].tree) # "none"
          /\ cur_state' = <<cur>>
          /\ states' = Tail(Beam)
          /\ error' = CompletionError(cur.stack[1].tree)
          /\ pc' = "raised"
    /\ UNCHANGED <<config, pipeline, training, completetrees, results>>

\* A round whose best state is not complete: its successors are pushed.
Expand ==
    /\ pc = "loop" /\ states # <<>> /\ ~Training
    /\ LET cur == Head(Beam)
           run == RunCandidates(cur, Candidates(cur))
           pushed == Tail(Beam) \o run.pushed
       IN /\ ~IsComplete(cur)
          /\ run.raised = "none"
          /\ cur_state' = <<cur>>
          /\ states' = [i \in 1..Len(pushed) |-> View(pushed[i], run.heap)]
    /\ UNCHANGED <<config, pipeline, training, completetrees, pc, error, results>>

\* A round in which process_action raises.
ExpandRaises ==
    /\ pc = "loop" /\ states # <<>> /\ ~Training
    /\ LET cur == Head(Beam)
           run == RunCandidates(cur, Candidates(cur))
           pushed == Tail(Beam) \o run.pushed
       IN /\ ~IsComplete(cur)
          /\ run.raised # "none"
          /\ cur_state' = <<cur>>
          /\ states' = [i \in 1..Len(pushed) |-> View(pushed[i], run.heap)]
          /\ error' = run.raised
          /\ pc' = "raised"
    /\ UNCHANGED <<config, pipeline, training, completetrees, results>>

\* A training round whose state is not complete: the next gold action is
\* popped, its training pair yielded and the action applied.
GoldStep ==
    /\ pc = "loop" /\ states # <<>> /\ Training
    /\ LET cur == Head(Beam)
           act == Head(gold_actions)
           feats == mkfeats(cur.prevact, cur.sent, cur.stack, edu_start_indices(n))
           run == RunCandidates(cur, GoldCandidates(act))
           pushed == Tail(Beam) \o run.pushed
       IN /\ ~IsComplete(cur)
          /\ gold_actions # <<>>
          /\ GoldShiftIsText(act)
          /\ run.raised = "none"
          /\ cur_state' = <<cur>>
          /\ gold_actions' = Tail(gold_actions)
          /\ pairs' = IF make_features /\ EmitsPair(act, cur.prevact)
                       THEN Append(pairs, TrainingPair(act, feats))
                       ELSE pairs
          /\ states' = [i \in 1..Len(pushed) |-> View(pushed[i], run.heap)]
    /\ UNCHANGED <<config, pipeline, logged, completetrees, pc, error, results>>

\* A training round in which the assert on the gold action fails or
\* process_action raises.
GoldStepRaises ==
    /\ pc = "loop" /\ states # <<>> /\ Training
    /\ LET cur == Head(Beam)
           act == Head(gold_actions)
           feats == mkfeats(cur.prevact, cur.sent, cur.stack, edu_start_indices(n))
           run == RunCandidates(cur, GoldCandidates(act))
       IN /\ ~IsComplete(cur)
          /\ gold_actions # <<>>
          /\ ~GoldShiftIsText(act) \/ run.raised # "none"
          /\ cur_state' = <<cur>>
          /\ gold_actions' = Tail(gold_actions)
          /\ pairs' = IF GoldShiftIsText(act) /\ make_features /\ EmitsPair(act, cur.prevact)
                       THEN Append(pairs, TrainingPair(act, feats))
                       ELSE pairs
          /\ states' = Tail(Beam)
          /\ error' = IF GoldShiftIsText(act) THEN run.raised ELSE "AssertionError"
          /\ pc' = "raised"
    /\ UNCHANGED <<config, pipeline, logged, completetrees, results>>

\* A training round whose state is not complete when no gold action is
\* left: the error is logged and the loop left.
GoldExhausted ==
    /\ pc = "loop" /\ states # <<>> /\ Training
    /\ LET cur == Head(Beam)
       IN /\ ~IsComplete(cur)
          /\ gold_actions = <<>>
          /\ cur_state' = <<cur>>
          /\ states' = Tail(Beam)
          /\ logged' = Append(logged, cur)
          /\ pc' = "break"
    /\ UNCHANGED <<config, pipeline, gold_actions, pairs, completetrees, error, results>>

\* The loop has ended: the fallback if nothing was completed, then the
\* trees are yielded.
Finish ==
    /\ \/ pc = "loop" /\ states = <<>>
       \/ pc = "break"
    /\ LET trees == IF NeedFallback(completetrees)
                    THEN Append(completetrees, [tree |-> FlatTree(n), score |-> 0])
                    ELSE completetrees
       IN /\ completetrees' = trees
          /\ results' = IF YieldsTrees THEN trees ELSE <<>>
    /\ pc' = "returned"
    /\ UNCHANGED <<config, pipeline, training, states, cur_state, error>>

Next ==
    \/ CollectTree
    \/ CollectRaises
    \/ Expand
    \/ ExpandRaises
    \/ Finish

Spec == Init /\ [][Next]_vars

\* ---------------------------------------------------------------- pipeline
Whitespace == {" ", "\n", "\t"}

\* str.strip(): leading and trailing whitespace removed.
RECURSIVE lstrip(_)
lstrip(s) == IF s = <<>> \/ Head(s) \notin Whitespace THEN s ELSE lstrip(Tail(s))
RECURSIVE rstrip(_)
rstrip(s) == IF s = <<>> \/ s[Len(s)] \notin Whitespace THEN s ELSE rstrip(DropLast(s))
strip(s) == rstrip(lstrip(s))

\* The paragraph flags are looked up for the first EDU (tok_idx == 0), and
\* starts_paragraph_list is bound only where the syntax parser ran.
SegmentRaises(d, num) == ~d.edu_start_indices /\ d.syntax_trees /\ num >= 1

\* The blank check left out.
IsBlankIgnored(d) == FALSE

\* "if 'raw_text' in doc_dict and not doc_dict['raw_text'].strip()"
IsBlank(d) == d.raw_text # <<>> /\ strip(d.raw_text[1]) = <<>>

\* The texts of the documents: empty, whitespace only, and with words.
RawTexts == {<<>>, <<" ", "\n">>, <<" ", "w", "\n", "w">>}

\* The documents segment_and_parse is called with: syntax trees need the
\* text or come with the document, EDU boundaries come with syntax trees.
Documents ==
    {DocDict(<<t>>, sy, ed) : t \in RawTexts, sy \in BOOLEAN, ed \in BOOLEAN}
    \cup {DocDict(<<>>, TRUE, ed) : ed \in BOOLEAN}

\* The collaborators segment_and_parse invokes on a document that is not
\* blank, in order, up to the one that raises or the last.
CallsFor(d, num) ==
    (IF ~d.syntax_trees THEN <<"syntax_parser.parse_document">> ELSE <<>>)
    \o (IF ~d.edu_start_indices THEN <<"segmenter.segment_document">> ELSE <<>>)
    \o (IF SegmentRaises(d, num) THEN <<>>
        ELSE <<"extract_edus_tokens", "rst_parser.parse">>)

PipeInit ==
    /\ doc \in {d \in Documents : d.edu_start_indices => d.syntax_trees}
    /\ n \in IF IsBlank(doc) THEN {0} ELSE 1..MaxEdus
    /\ max_acts = 1
    /\ max_states = 1
    /\ n_best = 1
    /\ label_list \in LabelLists
    /\ scores \in [1..Len(label_list) -> LogProbs]
    /\ states = <<>>
    /\ cur_state = <<>>
    /\ completetrees = <<>>
    /\ pc = "start"
    /\ error = "none"
    /\ results = <<>>
    /\ gold = <<>>
    /\ make_features = TRUE
    /\ gold_actions = <<>>
    /\ pairs = <<>>
    /\ logged = <<>>
    /\ calls = <<>>
    /\ ret = <<>>

\* segment_and_parse(doc_dict, syntax_parser, segmenter, rst_parser); the
\* generator it returns is then run by the caller.
SegmentAndParse ==
    /\ pc = "start"
    /\ IF IsBlank(doc)
       THEN /\ ret' = <<[edu_tokens |-> <<>>, trees |-> PyList(<<>>)]>>
            /\ pc' = "blank"
            /\ UNCHANGED <<calls, states, error>>
       ELSE /\ calls' = CallsFor(doc, n)
            /\ IF SegmentRaises(doc, n)
               THEN /\ error' = "UnboundLocalError"
                    /\ pc' = "raised"
                    /\ UNCHANGED <<ret, states>>
               ELSE /\ ret' = <<[edu_tokens |-> extract_tagged_doc_edus(n),
                                 trees |-> [type |-> "generator", v |-> <<>>]]>>
                    /\ states' = <<InitialState(extract_tagged_doc_edus(n))>>
                    /\ pc' = "loop"
                    /\ UNCHANGED error
    /\ UNCHANGED <<config, training, doc, cur_state, completetrees, results>>

PipeNext ==
    \/ SegmentAndParse
    \/ Next

PipeSpec == PipeInit /\ [][PipeNext]_vars

\* ------------------------------------------------------------ training mode
\* The actions gold sequences are made of.
GoldAlphabet ==
    {ShiftReduceAction("S", <<"text">>),
     ShiftReduceAction("U", <<"nucleus", ":", "text">>),
     ShiftReduceAction("B", <<"nucleus", ":", "elaboration">>),
     ShiftReduceAction("B", <<"nucleus", ":", "span">>),
     ShiftReduceAction("B", <<"ROOT">>)}

\* The gold sequence [S, S, S, B(nucleus:elaboration), B(ROOT)].
ShortReplay ==
    <<ShiftReduceAction("S", <<"text">>),
      ShiftReduceAction("S", <<"text">>),
      ShiftReduceAction("S", <<"text">>),
      ShiftReduceAction("B", <<"nucleus", ":", "elaboration">>),
      ShiftReduceAction("B", <<"ROOT">>)>>

\* The same with the unary reduce that labels the last EDU nucleus:text.
UnaryReplay ==
    SubSeq(ShortReplay, 1, 3)
    \o <<ShiftReduceAction("U", <<"nucleus", ":", "text">>)>>
    \o SubSeq(ShortReplay, 4, 5)

\* The same with the binary reduce that joins the first EDU to the rest.
FullReplay ==
    SubSeq(UnaryReplay, 1, 5)
    \o <<ShiftReduceAction("B", <<"nucleus", ":", "span">>),
         ShiftReduceAction("B", <<"ROOT">>)>>

\* A gold sequence over 4 EDUs that leaves two open partial nodes with
\* different labels on the stack.
PartialReplay ==
    <<ShiftReduceAction("S", <<"text">>),
      ShiftReduceAction("U", <<"nucleus", ":", "text">>),
      ShiftReduceAction("S", <<"text">>),
      ShiftReduceAction("B", <<"nucleus", ":", "span", "*">>),
      ShiftReduceAction("S", <<"text">>),
      ShiftReduceAction("U", <<"nucleus", ":", "text">>),
      ShiftReduceAction("S", <<"text">>),
      ShiftReduceAction("B", <<"satellite", ":", "elaboration", "*">>)>>

\* The gold sequences of the training runs: every sequence of up to MaxGold
\* actions, the three replays and the one with partial nodes.
GoldSequences ==
    UNION {[1..k -> GoldAlphabet] : k \in 0..MaxGold}
    \cup {ShortReplay, UnaryReplay, FullReplay, PartialReplay}

\* parse(doc_dict, gold_actions): a Parser without a model, one state in the
\* frontier.
GoldInit ==
    /\ n \in 0..MaxGoldEdus
    /\ max_acts \in 1..MaxActs
    /\ max_states = 1
    /\ n_best = 1
    /\ label_list = <<>>
    /\ scores = <<>>
    /\ states = <<InitialState(extract_tagged_doc_edus(n))>>
    /\ cur_state = <<>>
    /\ completetrees = <<>>
    /\ pc = "loop"
    /\ error = "none"
    /\ results = <<>>
    /\ gold \in {<<g>> : g \in GoldSequences}
    /\ make_features \in BOOLEAN
    /\ gold_actions = gold[1]
    /\ pairs = <<>>
    /\ logged = <<>>
    /\ doc = ParsedDoc
    /\ calls = <<>>
    /\ ret = <<>>

GoldNext ==
    \/ CollectTree
    \/ CollectRaises
    \/ GoldStep
    \/ GoldStepRaises
    \/ GoldExhausted
    \/ Finish

GoldSpec == GoldInit /\ [][GoldNext]_vars

\* ------------------------------------------------------------------ claims
\* The states of the search: the frontier and the state popped last.
SearchStates == {states[i] : i \in 1..Len(states)} \cup {cur_state[i] : i \in 1..Len(cur_state)}

ModelActions == {_get_model_actions(label_list)[i] : i \in 1..Len(label_list)}

\* The EDU index a leaf stands for: the search's leaves are the strings
\* '0', '1', ..., the flat tree's are the ints.
LeafIndex(leaf) == IF leaf.type = "int" THEN leaf.v ELSE IntOfStr(leaf.v)
LeafIndices(tree) == [i \in 1..Len(leaves(tree)) |-> LeafIndex(leaves(tree)[i])]

\* The length of the run of unary reduces that ends a path.
RECURSIVE UnaryRun(_)
UnaryRun(path) ==
    IF path = <<>> \/ path[Len(path)].type # "U" THEN 0
    ELSE 1 + UnaryRun(DropLast(path))

\* The longest run of consecutive unary reduces on a path.
RECURSIVE LongestUnaryRun(_)
LongestUnaryRun(path) ==
    IF path = <<>> THEN 0
    ELSE LET a == UnaryRun(path)
             b == LongestUnaryRun(DropLast(path))
         IN IF a >= b THEN a ELSE b

\* C1: the leaves of every tree parse collects or returns (completed by the
\* search or the flat fallback) are the EDU indices 0..n-1, each once, in
\* the original order.
C1_LeavesAreEdusInOrder ==
    /\ \A i \in 1..Len(completetrees) :
          LeafIndices(completetrees[i].tree) = [k \in 1..n |-> k - 1]
    /\ \A i \in 1..Len(results) :
          LeafIndices(results[i].tree) = [k \in 1..n |-> k - 1]

\* C1 witness: parse returned a tree the search completed over two or more
\* EDUs.
C1_Witness ==
    /\ pc = "returned" /\ n >= 2
    /\ cur_state # <<>> /\ IsComplete(cur_state[1])
    /\ Len(results) >= 1

\* C2: in decoding mode parse yields at least 1 and at most n_best results
\* for a document (here: for every document of one or more EDUs, once parse
\* has ended, by returning or by raising).
C2_ResultCount ==
    (n >= 1 /\ pc \in {"returned", "raised"})
        => (Len(results) >= 1 /\ Len(results) <= n_best)

\* C3: with non-positive action scores the trees are collected and returned
\* in descending order of score.
C3_RankedByScore ==
    /\ \A i, j \in 1..Len(completetrees) :
          i < j => completetrees[i].score >= completetrees[j].score
    /\ \A i, j \in 1..Len(results) :
          i < j => results[i].score >= results[j].score

\* C3 witness: two trees of different scores were returned.
C3_Witness ==
    /\ pc = "returned" /\ Len(results) >= 2
    /\ results[1].score > results[2].score

\* C4 as claimed: after each search round the frontier holds at most
\* max_states states.
C4_FrontierWithinBeam ==
    (pc = "loop" /\ cur_state # <<>>) => Len(states) <= max_states

\* C4 amended: after each search round the frontier holds at most
\* max_states - 1 + max_acts states, and the frontier a round works on
\* (sorted and cut) holds at most max_states.
C4_FrontierBound ==
    /\ Len(states) <= max_states - 1 + max_acts
    /\ Len(Beam) <= max_states

\* C4 witness: a round ended with max_states - 1 + max_acts > max_states
\* states in the frontier.
C4_Witness ==
    /\ pc = "loop" /\ cur_state # <<>>
    /\ max_acts > 1
    /\ Len(states) = max_states - 1 + max_acts

NoNucleusOrPartial(lc_label, rc_label) ==
    /\ ~startswith(lc_label, <<"nucleus", ":">>)
    /\ ~startswith(rc_label, <<"nucleus", ":">>)
    /\ ~endswith(lc_label, <<"*">>)
    /\ ~endswith(rc_label, <<"*">>)

\* C6: on a stack with two or more items above the sentinel, Binary(label)
\* with label other than ROOT is rejected whenever neither of the two top
\* items has a label starting with "nucleus:" or ending with '*'.
C6_BinaryNeedsHead ==
    \A st \in SearchStates : \A act \in ModelActions :
        (/\ act.type = "B" /\ act.label # <<"ROOT">>
         /\ Len(st.stack) >= 3
         /\ NoNucleusOrPartial(st.stack[Len(st.stack) - 1].nt, st.stack[Len(st.stack)].nt))
        => ~is_valid_action(act, st.ucnt, st.sent, st.stack)

\* C7: a Binary action the validity filter accepts always finds a head
\* child, so process_action never raises 'Unexpected binary reduce'.
C7_NoUnexpectedBinaryReduce ==
    /\ error # "ValueError"
    /\ \A st \in SearchStates : \A act \in ModelActions :
          (act.type = "B" /\ is_valid_action(act, st.ucnt, st.sent, st.stack))
          => process_action(act, st.sent, st.stack).raised = "none"

\* C8 as claimed: no action sequence of the search has more than 2
\* consecutive unary reduces.
C8_AtMostTwoUnary ==
    \A st \in SearchStates : LongestUnaryRun(st.path) <= 2

\* C8 amended: no action sequence of the search has more than 3 consecutive
\* unary reduces, and ucnt is the length of the run of unary reduces that
\* ends the sequence.
C8_AtMostThreeUnary ==
    \A st \in SearchStates :
        /\ LongestUnaryRun(st.path) <= 3
        /\ st.ucnt = UnaryRun(st.path)

\* C8 witness: a sequence with 3 consecutive unary reduces.
C8_Witness ==
    \E st \in SearchStates : LongestUnaryRun(st.path) = 3

\* C9: every Unary action is rejected when the stack top is the sentinel,
\* and the sentinel is never wrapped by a unary reduce.
C9_NoUnaryOnSentinel ==
    \A st \in SearchStates :
        /\ \A act \in ModelActions :
              (act.type = "U" /\ st.stack[Len(st.stack)].nt = <<"LEFTWALL">>)
              => ~is_valid_action(act, st.ucnt, st.sent, st.stack)
        /\ (Len(st.stack) >= 2 \/ st.nsteps = 0) => st.stack[1] = LeftWallItem

\* C10: Binary(ROOT) is accepted only on a stack of exactly 2 items with an
\* empty queue, and on a document with one or more EDUs every complete state
\* (queue empty, stack length 1) has Binary(ROOT) as its previous action.
C10_RootIsFinishingMove ==
    \A st \in SearchStates :
        /\ is_valid_action(ShiftReduceAction("B", <<"ROOT">>), st.ucnt, st.sent, st.stack)
              => (Len(st.stack) = 2 /\ st.sent = <<>>)
        /\ (n >= 1 /\ IsComplete(st))
              => st.prevact = ShiftReduceAction("B", <<"ROOT">>)

\* C10 witness: a state over two EDUs was recognised as complete after
\* Binary(ROOT).
C10_Witness ==
    /\ n >= 2 /\ cur_state # <<>> /\ IsComplete(cur_state[1])
    /\ cur_state[1].prevact = ShiftReduceAction("B", <<"ROOT">>)
    /\ pc \in {"loop", "break"}

\* C11: in every state of the decoding search the stack holds at least one
\* item, and no action the validity filter accepts makes process_action pop
\* from an empty stack or shift from an empty queue (an IndexError).
C11_StackNeverEmpty ==
    \A st \in SearchStates :
        /\ Len(st.stack) >= 1
        /\ \A act \in ModelActions :
              is_valid_action(act, st.ucnt, st.sent, st.stack)
              => /\ process_action(act, st.sent, st.stack).raised # "IndexError"
                 /\ Len(process_action(act, st.sent, st.stack).stack) >= 1
                 /\ act.type = "S" => st.sent # <<>>
                 /\ act.type = "B" => Len(st.stack) >= 2

\* C11 witness: a state whose queue is empty was expanded while the model
\* had a shift action, and its stack is down to two items after a reduce.
C11_Witness ==
    /\ pc = "loop" /\ cur_state # <<>>
    /\ cur_state[1].sent = <<>> /\ Len(cur_state[1].stack) = 2
    /\ cur_state[1].prevact.type = "B" /\ n >= 2
    /\ ShiftReduceAction("S", <<"text">>) \in ModelActions

\* The number of actions of a type on a path.
RECURSIVE CountType(_, _)
CountType(path, type) ==
    IF path = <<>> THEN 0
    ELSE CountType(Tail(path), type) + (IF Head(path).type = type THEN 1 ELSE 0)

\* C12: a shift that process_action carries out removes exactly the front
\* item of the queue and puts that item unchanged on top of the stack, the
\* items below unchanged; a unary or binary reduce leaves the queue
\* unchanged; so the queue of a state is the document's EDUs without the
\* first k, k the number of shifts on the state's path.
C12_ShiftFrame ==
    \A st \in SearchStates :
        /\ \A act \in ModelActions :
              LET out == process_action(act, st.sent, st.stack)
              IN out.raised = "none"
                 => /\ act.type = "S"
                       => /\ out.sent = Tail(st.sent)
                          /\ Len(out.sent) = Len(st.sent) - 1
                          /\ out.stack = Append(st.stack, Head(st.sent))
                    /\ act.type \in {"U", "B"} => out.sent = st.sent
        /\ LET shifts == CountType(st.path, "S")
               edus == initialize_edu_data(extract_tagged_doc_edus(n))
           IN /\ Len(st.sent) = n - shifts
              /\ st.sent = SubSeq(edus, shifts + 1, n)

\* C12 witness: a state reached by shifts and reduces of both kinds that
\* still has an EDU to shift, which the model's shift action moves.
C12_Witness ==
    \E st \in SearchStates :
        /\ n >= 2 /\ Len(st.sent) = 1
        /\ CountType(st.path, "U") >= 1
        /\ ShiftReduceAction("S", <<"text">>) \in ModelActions
        /\ process_action(ShiftReduceAction("S", <<"text">>), st.sent, st.stack).raised = "none"
        /\ \E succ \in SearchStates :
              /\ succ.path = Append(st.path, ShiftReduceAction("S", <<"text">>))
              /\ succ.sent = <<>>

\* C13: on a document of one EDU or more the decoding loop ends only with
\* the frontier empty or with n_best completed trees collected (the break
\* of line 475), never by an exception.
C13_LoopEndsNormally ==
    (n >= 1 /\ pc # "loop") => pc \in {"break", "returned"}

\* Every action path has bounded length: at most n shifts and n binary
\* reduces, each after at most 3 unary reduces, and 3 more at the end.
PathsBounded ==
    \A st \in SearchStates : st.nsteps = Len(st.path) /\ st.nsteps <= 8 * n + 3

\* (text i): the tree of EDU i.
EduTree(i) == Tree(<<"text">>, <<Leaf(PyStr(StrOfInt(i)))>>)

\* (nucleus:elaboration (text 1) (nucleus:text (text 2)))
ElaborationTree ==
    Tree(<<"nucleus", ":", "elaboration">>,
         <<EduTree(1), Tree(<<"nucleus", ":", "text">>, <<EduTree(2)>>)>>)

\* The training run is about to apply Binary(ROOT), the last gold action.
AtLastRoot ==
    /\ pc = "loop" /\ states # <<>>
    /\ gold_actions = <<ShiftReduceAction("B", <<"ROOT">>)>>

\* Binary(ROOT) is legal on the state the run is about to apply it to.
RootLegalHere ==
    is_valid_action(ShiftReduceAction("B", <<"ROOT">>),
                    states[1].ucnt, states[1].sent, states[1].stack)

\* C15 as claimed, with the unary reduce that makes the last EDU's label
\* nucleus:text before the reduce: replaying Shift, Shift, Shift,
\* Binary(nucleus:elaboration), Binary(ROOT) over 3 EDUs applies
\* Binary(ROOT) where it is legal and ends in a complete state with the one
\* tree (ROOT (text 0) (nucleus:elaboration (text 1) ...)).
C15_ReplayEndsComplete ==
    (n = 3 /\ gold = <<UnaryReplay>>)
    => /\ AtLastRoot => RootLegalHere
       /\ pc # "loop"
          => /\ error = "none" /\ logged = <<>>
             /\ IsComplete(cur_state[1])
             /\ completetrees
                  = <<[tree |-> Tree(<<"ROOT">>, <<EduTree(0), ElaborationTree>>),
                       score |-> 0]>>

\* C15 amended: the replay ends complete once a further binary reduce has
\* joined the first EDU to the rest; then Binary(ROOT) is legal where it is
\* applied (the sentinel and one tree on the stack, the queue empty) and the
\* tree is (ROOT (nucleus:span (text 0) (nucleus:elaboration (text 1)
\* (nucleus:text (text 2))))).  Without that reduce Binary(ROOT) is applied
\* where it is not legal, the run ends incomplete with the error logged and
\* only the flat tree; without the unary reduce Binary(nucleus:elaboration)
\* raises ValueError.
C15_FullReplayEndsComplete ==
    /\ (n = 3 /\ gold = <<FullReplay>>)
       => /\ AtLastRoot => RootLegalHere
          /\ pc # "loop"
             => /\ error = "none" /\ logged = <<>>
                /\ IsComplete(cur_state[1])
                /\ completetrees
                     = <<[tree |-> Tree(<<"ROOT">>,
                                        << Tree(<<"nucleus", ":", "span">>,
                                                <<EduTree(0), ElaborationTree>>) >>),
                          score |-> 0]>>
    /\ (n = 3 /\ gold = <<UnaryReplay>>)
       => /\ AtLastRoot => ~RootLegalHere
          /\ pc # "loop"
             => /\ error = "none" /\ logged # <<>>
                /\ ~IsComplete(cur_state[1])
                /\ pc = "returned"
                   => completetrees = <<[tree |-> FlatTree(3), score |-> 0]>>
    /\ (n = 3 /\ gold = <<ShortReplay>> /\ pc # "loop")
       => error = "ValueError" /\ gold_actions = <<ShiftReduceAction("B", <<"ROOT">>)>>

\* C15 witness: the full replay over 3 EDUs has returned.
C15_Witness ==
    /\ n = 3 /\ gold = <<FullReplay>> /\ gold_actions = <<>>
    /\ pc = "returned" /\ Len(completetrees) = 1

\* C16: once the gold actions have run out on a state that is not complete
\* (the error is logged), no further state is expanded and no tree is
\* yielded to the caller, with make_features or without.
C16_ExhaustionYieldsNoTree ==
    logged # <<>>
    => /\ states = <<>>
       /\ cur_state = <<logged[1]>>
       /\ results = <<>>

\* The gold actions popped so far.
Consumed == SubSeq(gold[1], 1, Len(gold[1]) - Len(gold_actions))

\* The action before the i-th of a sequence; before the first, the Shift
\* the initial state has as its previous action.
ActionBefore(seq, i) ==
    IF i = 1 THEN ShiftReduceAction("S", <<"text">>) ELSE seq[i - 1]

\* A unary reduce that repeats the action before it.
IsRepeatedUnary(seq, i) == seq[i].type = "U" /\ seq[i] = ActionBefore(seq, i)

\* The positions of a sequence that are not repeated unary reduces.
RECURSIVE EmittedPositions(_, _)
EmittedPositions(seq, i) ==
    IF i > Len(seq) THEN <<>>
    ELSE (IF IsRepeatedUnary(seq, i) THEN <<>> ELSE <<i>>)
         \o EmittedPositions(seq, i + 1)

\* C17: in training mode with make_features the pairs yielded are, in gold
\* order, one per gold action popped, labelled "type:label" and with the
\* features of the state the action was popped for, except for a unary
\* reduce identical to the action before it; the action without a pair is
\* applied all the same, and no tree is yielded.
C17_OnePairPerGoldAction ==
    (Training /\ make_features)
    => LET pos == EmittedPositions(Consumed, 1)
       IN /\ Len(pairs) = Len(pos)
          /\ \A k \in 1..Len(pos) :
                /\ pairs[k].label = <<Consumed[pos[k]].type, ":">> \o Consumed[pos[k]].label
                /\ pairs[k].feats[1] = PrevFeat(ActionBefore(Consumed, pos[k]))
          /\ (pc = "loop" /\ states # <<>>) => states[1].path = Consumed
          /\ results = <<>>

\* C17 witness: a training run with make_features has applied a unary
\* reduce twice in a row and yielded a pair for the first only.
C17_Witness ==
    /\ Training /\ make_features /\ pc = "loop" /\ states # <<>>
    /\ Len(Consumed) = 3 /\ IsRepeatedUnary(Consumed, 3)
    /\ Len(pairs) = 2
    /\ states[1].path = Consumed
    /\ states[1].ucnt = 2

\* The document has a raw text with no character other than whitespace.
BlankText ==
    /\ doc.raw_text # <<>>
    /\ \A i \in 1..Len(doc.raw_text[1]) : doc.raw_text[1][i] \in Whitespace

\* C18: on a document whose raw text is blank, segment_and_parse invokes
\* neither the syntax parser nor the segmenter nor the RST parser, the
\* search is never started, and what it returns is an empty EDU list and an
\* empty list of trees.
C18_BlankDocumentReturnsEmpty ==
    BlankText
    => /\ calls = <<>>
       /\ pc \in {"start", "blank"}
       /\ states = <<>> /\ cur_state = <<>> /\ completetrees = <<>>
       /\ results = <<>> /\ error = "none"
       /\ pc = "blank" => ret = <<[edu_tokens |-> <<>>, trees |-> PyList(<<>>)]>>
       /\ pc = "start" => ret = <<>>

\* C18 witness: segment_and_parse has returned on a document of whitespace
\* that came with syntax trees and EDU boundaries.
C18_Witness ==
    /\ BlankText /\ Len(doc.raw_text[1]) >= 1
    /\ doc.syntax_trees /\ doc.edu_start_indices
    /\ pc = "blank" /\ ret # <<>>

\* The items on the stack and in the queue of a state.
ItemsOf(st) ==
    {st.stack[i] : i \in 1..Len(st.stack)} \cup {st.sent[i] : i \in 1..Len(st.sent)}

\* C19: every item on the stack or in the queue of every state of the
\* search, the sentinel and the nodes built by Binary(ROOT) included, has
\* start_idx <= head_idx <= end_idx.
C19_HeadWithinSpan ==
    \A st \in SearchStates :
        \A item \in ItemsOf(st) :
            item.start_idx <= item.head_idx /\ item.head_idx <= item.end_idx

\* C19 witness: a state holds the sentinel below a node two EDUs wide whose
\* head is its right child, and another state holds a node built by
\* Binary(ROOT).
C19_Witness ==
    /\ \E st \in SearchStates :
          /\ Len(st.stack) = 2 /\ st.stack[1].end_idx = 0 - 1
          /\ st.stack[2].nt # <<"ROOT">>
          /\ st.stack[2].start_idx = 0
          /\ st.stack[2].head_idx = 1
          /\ st.stack[2].end_idx = 1
    /\ \E st \in SearchStates :
          /\ st.stack[Len(st.stack)].nt = <<"ROOT">>
          /\ st.prevact = ShiftReduceAction("B", <<"ROOT">>)
          /\ st.stack[Len(st.stack)].end_idx = 1

\* A decoding round that expands the state it pops.
ExpandingRound ==
    /\ pc = "loop" /\ states # <<>> /\ ~Training
    /\ ~IsComplete(Head(Beam))

\* C20: in a round that expands a state, the states that stay in the
\* frontier are left as they were, every successor pushed is its action
\* applied to the stack and queue the parent had when it was popped,
\* whatever its siblings did, and no two states of the frontier hold the
\* same list objects.
C20_BranchesDoNotInterfere ==
    [][ExpandingRound
       => LET cur == Head(Beam)
              succs == Successors(cur)
          IN /\ cur_state' = <<cur>>
             /\ IF FirstRaised(succs) = "none"
                THEN /\ states' = Tail(Beam) \o [i \in 1..Len(succs) |-> succs[i].state]
                     /\ \A i, j \in 1..Len(states') :
                           i # j => states'[i].lists # states'[j].lists
                ELSE /\ error' = FirstRaised(succs)
                     /\ SubSeq(states', 1, Len(Tail(Beam))) = Tail(Beam)]_vars

\* C20 witness: with max_acts = 2 the frontier holds two siblings that
\* changed their stacks differently, next to a state of an earlier round.
C20_Witness ==
    /\ max_acts = 2 /\ Len(states) >= 3
    /\ \E i, j \in 1..Len(states) :
          /\ i < j
          /\ states[i].nsteps >= 2
          /\ DropLast(states[i].path) = DropLast(states[j].path)
          /\ states[i].prevact.type = "S" /\ states[j].prevact.type = "U"
          /\ \E k \in 1..Len(states) : states[k].nsteps < states[i].nsteps

\* The binary reduce actions of the training runs.
BinaryActions == {a \in GoldAlphabet : a.type = "B"}

\* A label marks a nucleus or an open partial node.
IsNucleusOrPartial(nt) == startswith(nt, <<"nucleus", ":">>) \/ endswith(nt, <<"*">>)

\* The head child of Binary(act.label) on children lc and rc, as the claim
\* words it: <<lc>>, <<rc>>, or <<>> when neither qualifies.
HeadChild(act, lc, rc) ==
    IF IsNucleusOrPartial(lc.nt) \/ act.label = <<"ROOT">> THEN <<lc>>
    ELSE IF IsNucleusOrPartial(rc.nt) THEN <<rc>>
    ELSE <<>>

\* C21: Binary(label) on a stack of two items or more whose children give a
\* head takes the two top items off and puts one node labelled label with
\* the children's trees, left then right; head tokens, POS and head_idx come
\* from the head child (the left one if its label starts with "nucleus:" or
\* ends with '*' or label is ROOT, else the right one), start_idx from the
\* left child, end_idx from the right child; the items below and the queue
\* are unchanged.
C21_BinaryBuildsNode ==
    \A st \in SearchStates : \A act \in BinaryActions :
        LET len == Len(st.stack)
            lc == st.stack[len - 1]
            rc == st.stack[len]
            out == process_action(act, st.sent, st.stack)
            node == out.stack[len - 1]
            h == HeadChild(act, lc, rc)
        IN (len >= 2 /\ h # <<>>)
           => /\ out.raised = "none"
              /\ Len(out.stack) = len - 1
              /\ SubSeq(out.stack, 1, len - 2) = SubSeq(st.stack, 1, len - 2)
              /\ out.sent = st.sent
              /\ node.nt = act.label
              /\ node.tree = Tree(act.label, <<lc.tree, rc.tree>>)
              /\ node.head = h[1].head
              /\ node.hpos = h[1].hpos
              /\ node.head_idx = h[1].head_idx
              /\ node.start_idx = lc.start_idx
              /\ node.end_idx = rc.end_idx

\* C21 witness: a training run applied a binary reduce other than ROOT
\* whose head is the right child, over two EDUs or more.
C21_Witness ==
    \E st \in SearchStates :
        LET top == st.stack[Len(st.stack)]
        IN /\ st.prevact.type = "B" /\ st.prevact.label # <<"ROOT">>
           /\ top.nt = st.prevact.label
           /\ top.start_idx >= 0
           /\ top.start_idx < top.head_idx /\ top.head_idx = top.end_idx

\* C22: after Binary(label) the new node has the head child's child counts
\* with the total one higher and the count one higher on the side where the
\* other child attaches: the right-child count when the left child is the
\* head, the left-child count when the right child is the head.
C22_CountsOnAttachmentSide ==
    \A st \in SearchStates : \A act \in BinaryActions :
        LET len == Len(st.stack)
            lc == st.stack[len - 1]
            rc == st.stack[len]
            out == process_action(act, st.sent, st.stack)
            node == out.stack[len - 1]
            h == HeadChild(act, lc, rc)
        IN (len >= 2 /\ h # <<>>)
           => /\ node.nch = h[1].nch + 1
              /\ h = <<lc>> => (node.nrch = lc.nrch + 1 /\ node.nlch = lc.nlch)
              /\ h = <<rc>> => (node.nlch = rc.nlch + 1 /\ node.nrch = rc.nrch)

\* The unary reduce actions of the training runs.
UnaryActions == {a \in GoldAlphabet : a.type = "U"}

\* The fields of an item a unary reduce must leave alone.
KeptByUnary ==
    {"head", "hpos", "head_idx", "start_idx", "end_idx", "lchnt", "rchnt",
     "lchpos", "rchpos", "lchw", "rchw", "nch", "nlch", "nrch"}

\* C23: Unary(label) replaces the top item of the stack by a node with the
\* label and the top item's tree under one new parent labelled label; every
\* other field of the node is the top item's, and the queue, the length of
\* the stack and the items below are unchanged.
C23_UnaryFrame ==
    \A st \in SearchStates : \A act \in UnaryActions :
        LET len == Len(st.stack)
            top == st.stack[len]
            out == process_action(act, st.sent, st.stack)
            node == out.stack[len]
        IN /\ out.raised = "none"
           /\ out.sent = st.sent
           /\ Len(out.stack) = len
           /\ SubSeq(out.stack, 1, len - 1) = SubSeq(st.stack, 1, len - 1)
           /\ DOMAIN node = KeptByUnary \cup {"nt", "tree"}
           /\ DOMAIN top = DOMAIN node
           /\ \A f \in KeptByUnary : node[f] = top[f]
           /\ node.nt = act.label
           /\ node.tree = Tree(act.label, <<top.tree>>)

\* C23 witness: a training run applied a unary reduce to a node built by a
\* binary reduce, which has child counts other than zero.
C23_Witness ==
    \E st \in SearchStates :
        LET top == st.stack[Len(st.stack)]
        IN /\ st.prevact.type = "U"
           /\ top.nt = st.prevact.label
           /\ top.nch >= 1
           /\ Len(top.tree.children) = 1
           /\ Len(top.tree.children[1].children) = 2

\* The labels of the binary reduces the filter is asked about.
BinaryLabels ==
    {<<"nucleus", ":", "span", "*">>, <<"nucleus", ":", "span">>,
     <<"satellite", ":", "elaboration", "*">>, <<"satellite", ":", "elaboration">>,
     <<"nucleus", ":", "elaboration">>}

\* A label ends with '*'.
IsPartial(nt) == nt # <<>> /\ nt[Len(nt)] = "*"

\* The label of a binary reduce continues or closes a child's label.
ContinuesOrCloses(label, c_label) ==
    label = c_label \/ label = SubSeq(c_label, 1, Len(c_label) - 1)

\* C24: on a stack of 3 items or more a binary reduce other than ROOT whose
\* left child's label ends with '*' is accepted only if its label is that
\* label or that label without the '*', and the same for the right child;
\* so when both children are partial nodes with different base labels no
\* such reduce is accepted.
C24_PartialLabelsMatch ==
    \A st \in SearchStates : \A label \in BinaryLabels : \A ucnt \in 0..3 :
        LET len == Len(st.stack)
            lc_label == st.stack[len - 1].nt
            rc_label == st.stack[len].nt
            ok == is_valid_action(ShiftReduceAction("B", label), ucnt, st.sent, st.stack)
        IN len >= 3
           => /\ (IsPartial(lc_label) /\ ok) => ContinuesOrCloses(label, lc_label)
              /\ (IsPartial(rc_label) /\ ok) => ContinuesOrCloses(label, rc_label)
              /\ (/\ IsPartial(lc_label) /\ IsPartial(rc_label)
                  /\ DropLast(lc_label) # DropLast(rc_label)) => ~ok

\* C24 witness: a state whose two top items are partial nodes with different
\* labels, the right one just built by a binary reduce.
C24_Witness ==
    \E st \in SearchStates :
        LET len == Len(st.stack)
        IN /\ len >= 3
           /\ st.stack[len - 1].nt = <<"nucleus", ":", "span", "*">>
           /\ st.stack[len].nt = <<"satellite", ":", "elaboration", "*">>
           /\ st.prevact = ShiftReduceAction("B", <<"satellite", ":", "elaboration", "*">>)

\* The positions in the label list of the actions valid for a state.
ValidPositions(st) ==
    {i \in 1..Len(label_list) :
        is_valid_action(_get_model_actions(label_list)[i], st.ucnt, st.sent, st.stack)}

\* The states of a frontier that are successors of a state.
SuccessorsIn(frontier, st) ==
    SelectSeq(frontier, LAMBDA x : x.path # <<>> /\ DropLast(x.path) = st.path)

\* The successors are the best valid actions, at most limit of them, best
\* first: each stands for a valid position of its own, no valid position
\* left out scores higher than one taken, and none is left out while there
\* is room.
AreBestValid(new, st, limit) ==
    \E pos \in [1..Len(new) -> ValidPositions(st)] :
        /\ \A i, j \in 1..Len(new) : i # j => pos[i] # pos[j]
        /\ \A k \in 1..Len(new) :
              /\ new[k].prevact = _get_model_actions(label_list)[pos[k]]
              /\ new[k].score = st.score + scores[pos[k]]
              /\ k > 1 => scores[pos[k - 1]] >= scores[pos[k]]
              /\ \A i \in ValidPositions(st) :
                    (\A j \in 1..Len(new) : pos[j] # i) => scores[i] <= scores[pos[k]]
        /\ Len(new) = Min(limit, Cardinality(ValidPositions(st)))

\* C25: the successors pushed in a decoding round are the max_acts
\* highest-scoring actions among those valid for the state popped, in
\* descending order of score; invalid actions take no slot, and a state
\* with no valid action gets no successor.
C25_BestValidCandidates ==
    [][(ExpandingRound /\ pc' = "loop")
       => LET cur == Head(Beam)
              new == SubSeq(states', Len(Beam), Len(states'))
          IN /\ AreBestValid(new, cur, max_acts)
             /\ \A k \in 1..Len(new) : new[k].path = Append(cur.path, new[k].prevact)]_vars

\* C25 witness: a round with max_acts = 2 pushed two successors although an
\* action that is not valid for the state scores higher than both.
C25_Witness ==
    /\ pc = "loop" /\ max_acts = 2 /\ cur_state # <<>>
    /\ Len(SuccessorsIn(states, cur_state[1])) = 2
    /\ \E i \in 1..Len(label_list) :
          /\ i \notin ValidPositions(cur_state[1])
          /\ \A k \in 1..2 :
                scores[i] > SuccessorsIn(states, cur_state[1])[k].score - cur_state[1].score
    /\ Cardinality(ValidPositions(cur_state[1])) >= 3

\* The place of a state in a frontier (paths tell the states apart).
PlaceIn(frontier, st) == CHOOSE i \in 1..Len(frontier) : frontier[i].path = st.path

\* A state is in a frontier.
IsIn(frontier, st) == \E i \in 1..Len(frontier) : frontier[i].path = st.path

\* A round of the decoding loop.
DecodingRound == pc = "loop" /\ states # <<>> /\ ~Training

\* C26: the state popped in a round has the highest score of the frontier
\* and stands before every other state of that score; a state cut by the
\* beam scores no higher than any state kept, and stands after every kept
\* state of its score; the kept states keep their order among equal scores
\* and the successors are put after them, so the order of equal-score
\* states in the frontier is the order they were inserted in.
C26_BestFirstStable ==
    [][DecodingRound
       => LET cur == cur_state'[1]
              kept == SubSeq(states', 1, Len(Beam) - 1)
              new == SubSeq(states', Len(Beam), Len(states'))
              old == {states[i] : i \in 1..Len(states)}
              keptset == {kept[i] : i \in 1..Len(kept)} \cup {cur}
          IN /\ cur \in old
             /\ \A s \in old : s.score <= cur.score
             /\ \A i \in 1..(PlaceIn(states, cur) - 1) : states[i].score < cur.score
             /\ keptset \subseteq old
             /\ Cardinality(keptset) = Min(max_states, Len(states))
             /\ \A s \in old \ keptset : \A t \in keptset :
                   /\ s.score <= t.score
                   /\ s.score = t.score => PlaceIn(states, t) < PlaceIn(states, s)
             /\ \A i, j \in 1..Len(kept) :
                   (i < j /\ kept[i].score = kept[j].score)
                   => PlaceIn(states, kept[i]) < PlaceIn(states, kept[j])
             /\ \A k \in 1..Len(new) : ~IsIn(states, new[k])]_vars

\* C26 witness: the state popped had the same score as another state of the
\* frontier, which is still there.
C26_Witness ==
    /\ pc = "loop" /\ cur_state # <<>> /\ max_states >= 2
    /\ \E i \in 1..Len(states) :
          /\ states[i].score = cur_state[1].score
          /\ states[i].path # <<>>
          /\ DropLast(states[i].path) # cur_state[1].path

\* The words (k = 1) or the POS tags (k = 2) of EDU i of the document.
TokensOf(i, k) ==
    LET edu == extract_tagged_doc_edus(n)[i + 1]
    IN [j \in 1..Len(edu) |-> edu[j][k]]

\* A token with the marker tag put after it.
Marked(tok, tag) == tok \o <<":::", tag>>

\* The second token of a list, the empty string if there is none.
SecondOrEmpty(toks) == IF Len(toks) > 1 THEN toks[2] ELSE <<>>

\* What every EDU item has besides its head tokens and POS tags: label
\* "text", the three indices equal to the EDU's index, zero child counts.
IsFreshEduItem(item, i) ==
    /\ item.nt = <<"text">>
    /\ item.head_idx = i /\ item.start_idx = i /\ item.end_idx = i
    /\ item.nch = 0 /\ item.nlch = 0 /\ item.nrch = 0

\* The items still in a queue: item j of the queue of a state is the EDU
\* of index n - Len(queue) + j - 1.
QueueItems ==
    UNION {{<<st.sent[j], n - Len(st.sent) + j - 1>> : j \in 1..Len(st.sent)} :
              st \in SearchStates}

\* C27 as claimed: the head tokens and the POS tags of every EDU item begin
\* with three markers, "-1" built from the last token and "0" and "1" both
\* built from the second token (the empty string if there is none).
C27_MarkersFromSecondToken ==
    \A q \in QueueItems :
        /\ IsFreshEduItem(q[1], q[2])
        /\ \A k \in 1..2 :
              LET toks == TokensOf(q[2], k)
                  list == IF k = 1 THEN q[1].head.v ELSE q[1].hpos.v
              IN list = <<Marked(toks[Len(toks)], "-1"),
                          Marked(SecondOrEmpty(toks), "0"),
                          Marked(SecondOrEmpty(toks), "1")>> \o toks

\* C27 amended: the marker "0" is built from the first token, the marker
\* "1" from the second (the empty string if there is none), the marker "-1"
\* from the last.
C27_MarkersFirstSecondLast ==
    \A q \in QueueItems :
        /\ IsFreshEduItem(q[1], q[2])
        /\ \A k \in 1..2 :
              LET toks == TokensOf(q[2], k)
                  list == IF k = 1 THEN q[1].head.v ELSE q[1].hpos.v
              IN list = <<Marked(toks[Len(toks)], "-1"),
                          Marked(toks[1], "0"),
                          Marked(SecondOrEmpty(toks), "1")>> \o toks

\* C27 witness: the queue of a run holds EDUs of one, two and three tokens.
C27_Witness ==
    /\ n >= 3 /\ states # <<>> /\ Len(states[1].sent) = n
    /\ \A c \in 1..3 : \E j \in 1..n : Len(states[1].sent[j].head.v) = c + 3

\* C28: in decoding mode, on a document of one or more EDUs, the tree of
\* every state recognised as complete has the LEFTWALL sentinel as its
\* first child, and the search never ends with a failed assertion.
C28_CompleteHasSentinelFirst ==
    (n >= 1 /\ ~Training) =>
        /\ error # "AssertionError"
        /\ \A st \in SearchStates :
              IsComplete(st) => CompletionError(st.stack[1].tree) = "none"

\* The stages a document lacks, in the order they are run.
MissingStages(d) ==
    (IF ~d.syntax_trees THEN <<"syntax_parser.parse_document">> ELSE <<>>)
    \o (IF ~d.edu_start_indices THEN <<"segmenter.segment_document">> ELSE <<>>)

\* C29: on every document with non-blank text, whichever of syntax trees
\* and EDU boundaries it brings, segment_and_parse runs the missing stages
\* and then the EDU extraction and the RST parser, and raises nothing of
\* its own on the way.
C29_EveryCombinationReachesParsing ==
    (pc # "start" /\ doc.raw_text # <<>> /\ ~IsBlank(doc)) =>
        /\ error # "UnboundLocalError"
        /\ calls = MissingStages(doc) \o <<"extract_edus_tokens", "rst_parser.parse">>

\* The values of the features named "dist" in a list of features.
DistValues(feats) ==
    {SubSeq(feats[i], 3, Len(feats[i])) :
        i \in {j \in 1..Len(feats) :
                  Len(feats[j]) >= 2 /\ feats[j][1] = "dist" /\ feats[j][2] = ":"}}

\* The states mkfeats is called on: those not recognised as complete.
FeatureStates == {st \in SearchStates : ~IsComplete(st)}

\* The features of a state.
FeatsOf(st) == mkfeats(st.prevact, st.sent, st.stack, edu_start_indices(n))

\* S1 of a state is the filler: the stack holds one item.
S1IsFiller(st) == Len(st.stack) = 1

\* C30 as claimed: dist is S0.head_idx - S1.head_idx, and it is 0 whenever
\* S1 is the filler, as in the initial state.
C30_DistZeroOnFiller ==
    \A st \in FeatureStates :
        LET len == Len(st.stack)
        IN /\ len > 1 => DistValues(FeatsOf(st)) =
                  {FormatInt(st.stack[len].head_idx - st.stack[len - 1].head_idx)}
           /\ S1IsFiller(st) => DistValues(FeatsOf(st)) = {<<"0">>}

\* C30 amended: dist is S0.head_idx - S1.head_idx with 0 standing for the
\* head_idx the filler lacks, so with S1 the filler it is S0.head_idx; in
\* the initial state, where S0 is the sentinel, it is -1.
C30_DistIsHeadDifference ==
    \A st \in FeatureStates :
        LET len == Len(st.stack)
        IN /\ len > 1 => DistValues(FeatsOf(st)) =
                  {FormatInt(st.stack[len].head_idx - st.stack[len - 1].head_idx)}
           /\ S1IsFiller(st) => DistValues(FeatsOf(st)) =
                  {FormatInt(st.stack[len].head_idx)}
           /\ st.nsteps = 0 => DistValues(FeatsOf(st)) = {<<"-", "1">>}

\* C30 witness: a training run has emitted the pair of the initial state,
\* whose features hold dist:-1, and stands in a state whose S0 and S1 are
\* two items with different heads.
C30_Witness ==
    /\ pairs # <<>> /\ DistValues(pairs[1].feats) = {<<"-", "1">>}
    /\ \E st \in FeatureStates :
          /\ Len(st.stack) > 1
          /\ DistValues(FeatsOf(st)) \cap {<<"1">>, <<"2">>} # {}
====
